---- MODULE Spec2Model ----
(***************************************************************************)
(* Scrape-time orchestration of the MongoDB exporter                       *)
(* (src/exporter/exporter.go): New with its warm-up goroutine, getClient,  *)
(* connect, the HTTP Handler and makeRegistry, run by concurrent requests. *)
(***************************************************************************)
EXTENDS Integers, Sequences, FiniteSets, TLC

(* ---------------------------------------------------------------------- *)
(* Bounds of the model                                                     *)
(* ---------------------------------------------------------------------- *)
\* nonSystemCollectionsCount returns a value in 0..MaxCount
MaxCount == 2
\* the non-zero value of CollStatsLimit that is explored (0 is "unlimited")
Ceiling == 2

Warmup   == 0                      \* the goroutine spawned by New
Requests == {1, 2}                 \* the goroutines of the HTTP server
Procs    == {Warmup} \cup Requests

Nil == -1                          \* a nil *mongo.Client
NoOne == -1                        \* clientMu is unlocked

\* totalCollectionsCount before the first successful count
NotCalculated == -1

typeMongos  == "mongos"
typeMongod  == "mongod"
typeUnknown == ""                  \* the value left when getNodeType fails
NodeTypes   == {typeMongos, typeMongod, typeUnknown}

general        == "general"
collstats      == "collstats"
indexstats     == "indexstats"
diagnosticdata == "diagnosticdata"
dbstats        == "dbstats"
top            == "top"
replsetstatus  == "replsetstatus"
Collectors == {general, collstats, indexstats, diagnosticdata, dbstats, top,
               replsetstatus}
\* the value of Handler's registry variable before makeRegistry has returned
NoRegistry == {"<none>"}

StatusNone                == 0     \* no header written yet
StatusOK                  == 200
StatusInternalServerError == 500

VARIABLES
    opts,                   \* e.opts, the Opts record the exporter points to
    client,                 \* e.client: Nil or the id of the shared connection
    clientMu,               \* e.clientMu: NoOne or the goroutine holding it
    lock,                   \* e.lock: NoOne or the goroutine holding it
    totalCollectionsCount,  \* e.totalCollectionsCount
    toArrive,               \* requests the HTTP server has still to receive
    pc,                     \* position of every goroutine
    cl,                     \* the local `client` of every goroutine
    conn,                   \* state of the connection every goroutine opened
    disconnects,            \* Disconnect calls of the Handler on a connection
    disconnectedBy,         \* requests whose Handler disconnected a connection
    topoFailed,             \* newTopologyInfo returned an error in the request
    status,                 \* status code written to the ResponseWriter
    errorBody,              \* http.Error wrote the error text to the body
    nodeType,               \* makeRegistry's nodeType
    limitsOk,               \* makeRegistry's limitsOk
    countRead,              \* last value makeRegistry read from the cache
    registry,               \* the registry makeRegistry returned
    defaultMerged,          \* gatherers contains prometheus.DefaultGatherer
    served,                 \* h.ServeHTTP ran with the gatherers
    countCalls,             \* calls of nonSystemCollectionsCount
    knownAtStart            \* the cache was populated when the request came

vars == <<opts, client, clientMu, lock, totalCollectionsCount, toArrive, pc, cl, conn,
          disconnects, disconnectedBy, topoFailed, status, errorBody, nodeType,
          limitsOk, countRead, registry, defaultMerged, served, countCalls,
          knownAtStart>>

shared == <<opts, client, clientMu, lock, totalCollectionsCount>>
connVars == <<conn, disconnects, disconnectedBy>>
respVars == <<topoFailed, status, errorBody, defaultMerged, served>>
regVars == <<nodeType, limitsOk, countRead, registry>>

(* ---------------------------------------------------------------------- *)
(* Configuration: the Opts record handed to New                            *)
(* ---------------------------------------------------------------------- *)
NamespaceLists == {<<>>, <<"db1.col1">>}

MakeOpts(pool, limit, all, disc, nss, idx, dd, db, rs, tm, is, cs, ddr) ==
    [GlobalConnPool |-> pool, CollStatsLimit |-> limit, CollectAll |-> all,
     DiscoveringMode |-> disc, CollStatsNamespaces |-> nss,
     IndexStatsCollections |-> idx, EnableDiagnosticData |-> dd,
     EnableDBStats |-> db, EnableReplicasetStatus |-> rs,
     EnableTopMetrics |-> tm, EnableIndexStats |-> is, EnableCollStats |-> cs,
     DisableDefaultRegistry |-> ddr]

\* every combination of the options the handler reads
AllOpts ==
    { MakeOpts(pool, limit, all, disc, nss, idx, dd, db, rs, tm, is, cs, ddr) :
        pool \in BOOLEAN, limit \in {0, Ceiling}, all \in BOOLEAN,
        disc \in BOOLEAN, nss \in NamespaceLists, idx \in NamespaceLists,
        dd \in BOOLEAN, db \in BOOLEAN, rs \in BOOLEAN, tm \in BOOLEAN,
        is \in BOOLEAN, cs \in BOOLEAN, ddr \in BOOLEAN }

\* the options under which concurrent requests are explored: either every
\* collector is enabled by its own flag, with namespace lists and discovery,
\* or no flag is set but CollectAll
ConcurrentOpts ==
    { o \in AllOpts :
        /\ o.DisableDefaultRegistry = FALSE
        /\ o.CollStatsNamespaces = o.IndexStatsCollections
        /\ o.EnableDBStats = o.EnableDiagnosticData
        /\ o.EnableReplicasetStatus = o.EnableDiagnosticData
        /\ o.EnableTopMetrics = o.EnableDiagnosticData
        /\ o.EnableIndexStats = o.EnableCollStats
        /\ o.EnableCollStats = o.EnableDiagnosticData
        /\ o.DiscoveringMode = o.EnableCollStats
        /\ o.CollectAll = ~o.EnableDiagnosticData
        /\ (o.CollStatsNamespaces # <<>>) = o.EnableDiagnosticData }

(* ---------------------------------------------------------------------- *)
(* New (src/exporter/exporter.go:82-110)                                   *)
(* ---------------------------------------------------------------------- *)
InitWith(optSet, arrivals) ==
    /\ opts \in optSet
    /\ client = Nil
    /\ clientMu = NoOne
    /\ lock = NoOne
    /\ totalCollectionsCount = NotCalculated
    /\ toArrive \in arrivals
    /\ pc = [p \in Procs |-> IF p = Warmup THEN "getClient" ELSE "idle"]
    /\ cl = [p \in Procs |-> Nil]
    /\ conn = [p \in Procs |-> "none"]
    /\ disconnects = [p \in Procs |-> 0]
    /\ disconnectedBy = [p \in Procs |-> {}]
    /\ topoFailed = [r \in Requests |-> FALSE]
    /\ status = [r \in Requests |-> StatusNone]
    /\ errorBody = [r \in Requests |-> FALSE]
    /\ nodeType = [r \in Requests |-> typeUnknown]
    /\ limitsOk = [r \in Requests |-> FALSE]
    /\ countRead = [r \in Requests |-> NotCalculated]
    /\ registry = [r \in Requests |-> NoRegistry]
    /\ defaultMerged = [r \in Requests |-> FALSE]
    /\ served = [r \in Requests |-> FALSE]
    /\ countCalls = 0
    /\ knownAtStart = [r \in Requests |-> FALSE]

Init == InitWith(ConcurrentOpts, {Cardinality(Requests)})

\* one request at a time, under every combination of the options
InitOptions == InitWith(AllOpts, {1})

(* ---------------------------------------------------------------------- *)
(* The HTTP server hands a request to the handler                          *)
(* ---------------------------------------------------------------------- *)
Receive(r) ==
    /\ r \in Requests
    /\ pc[r] = "idle"
    /\ toArrive > 0
    /\ \A q \in Requests : q < r => pc[q] # "idle"
    /\ toArrive' = toArrive - 1
    /\ pc' = [pc EXCEPT ![r] = "getClient"]
    /\ knownAtStart' = [knownAtStart EXCEPT
                           ![r] = totalCollectionsCount # NotCalculated]
    /\ UNCHANGED <<shared, cl, connVars, respVars, regVars, countCalls>>

\* where a goroutine continues when getClient has returned
AfterGetClient(p) == IF p = Warmup THEN "done" ELSE "count"

(* ---------------------------------------------------------------------- *)
(* getClient (src/exporter/exporter.go:231-259)                            *)
(* ---------------------------------------------------------------------- *)
\* a getClient that does not wait for the mutex
MuFreeUnguarded(p) == TRUE

\* e.clientMu.Lock() can be taken
MuFree(p) == clientMu = NoOne

\* entry of getClient: with GlobalConnPool the mutex is taken and the shared
\* client returned if there is one; otherwise connect is started
GetClient(p) ==
    /\ pc[p] = "getClient"
    /\ IF opts.GlobalConnPool
       THEN /\ MuFree(p)
            /\ IF client # Nil
               THEN /\ cl' = [cl EXCEPT ![p] = client]
                    /\ pc' = [pc EXCEPT ![p] = AfterGetClient(p)]
                    /\ UNCHANGED clientMu      \* locked and unlocked by defer
               ELSE /\ clientMu' = p
                    /\ pc' = [pc EXCEPT ![p] = "connecting"]
                    /\ UNCHANGED cl
       ELSE /\ pc' = [pc EXCEPT ![p] = "connecting"]
            /\ UNCHANGED <<cl, clientMu>>
    /\ UNCHANGED <<opts, client, lock, totalCollectionsCount, toArrive,
                   connVars, respVars, regVars, countCalls, knownAtStart>>

\* connect (src/exporter/exporter.go:342-360): the state of the connection
\* and the client returned, for each outcome of mongo.Connect and Ping
ConnectOutcomes == {"connectError", "pingError", "ok"}
ConnAfterConnect(outcome) ==
    CASE outcome = "connectError" -> "none"
      [] outcome = "pingError"    -> "pingFailed"   \* Disconnect-ed by connect
      [] outcome = "ok"           -> "open"
\* a connect that returns the client although the ping failed
ClientOfConnectHalfOpen(p, outcome) ==
    IF outcome # "connectError" THEN p ELSE Nil

ClientOfConnect(p, outcome) == IF outcome = "ok" THEN p ELSE Nil

\* a getClient that returns the new client without storing it
StoredClientForgotten(c) == client

\* the value getClient stores in e.client when connect has returned
StoredClient(c) == IF opts.GlobalConnPool /\ c # Nil THEN c ELSE client

\* connect returns inside getClient; the deferred Unlock runs
ConnectReturns(p, outcome) ==
    /\ pc[p] = "connecting"
    /\ outcome \in ConnectOutcomes
    /\ conn' = [conn EXCEPT ![p] = ConnAfterConnect(outcome)]
    /\ cl' = [cl EXCEPT ![p] = ClientOfConnect(p, outcome)]
    /\ client' = StoredClient(ClientOfConnect(p, outcome))
    /\ clientMu' = IF opts.GlobalConnPool THEN NoOne ELSE clientMu
    /\ pc' = [pc EXCEPT ![p] = AfterGetClient(p)]
    /\ UNCHANGED <<opts, lock, totalCollectionsCount, toArrive, disconnects,
                   disconnectedBy, respVars, regVars, countCalls, knownAtStart>>

(* ---------------------------------------------------------------------- *)
(* Handler (src/exporter/exporter.go:263-326)                              *)
(* ---------------------------------------------------------------------- *)
\* getTotalCollectionsCount (lines 112-117) and the store of lines 277-279
\* take e.lock, touch the cached integer and release the lock at once
LockFree == lock = NoOne

\* a handler that counts on every request with a client
CountNeededAlways(c, cached) == c # Nil

\* line 274: the count is (re)computed when the cache reads as unknown
CountNeeded(c, cached) == c # Nil /\ cached < 0

\* lines 274 and 297: with no client neither the count nor the topology
\* is asked for
CountCheck(r) ==
    /\ r \in Requests
    /\ pc[r] = "count"
    /\ cl[r] # Nil => LockFree
    /\ pc' = [pc EXCEPT ![r] =
                IF CountNeeded(cl[r], totalCollectionsCount) THEN "counting"
                ELSE IF cl[r] # Nil THEN "topology"
                ELSE "makeRegistry"]
    /\ UNCHANGED <<shared, toArrive, cl, connVars, respVars, regVars,
                   countCalls, knownAtStart>>

CountResults == {[err |-> TRUE, count |-> 0]} \cup
                {[err |-> FALSE, count |-> n] : n \in 0..MaxCount}

\* a handler that stores the count whatever err is
StoreCountIgnoringErr(res) == res.count

\* lines 275-280: nonSystemCollectionsCount returns; a result is stored
StoreCount(res) == IF res.err THEN totalCollectionsCount ELSE res.count

CountReturns(r, res) ==
    /\ r \in Requests
    /\ pc[r] = "counting"
    /\ res \in CountResults
    /\ ~res.err => LockFree
    /\ countCalls' = countCalls + 1
    /\ totalCollectionsCount' = StoreCount(res)
    /\ pc' = [pc EXCEPT ![r] = "topology"]
    /\ UNCHANGED <<opts, client, clientMu, lock, toArrive, cl, connVars,
                   respVars, regVars, knownAtStart>>

\* a handler that only logs the topology error
StatusAfterTopologyLogOnly(old, ok) == old

\* lines 297-307: newTopologyInfo returns; on error http.Error writes the
\* 500 response, and the handler goes on
StatusAfterTopology(old, ok) ==
    IF ok \/ old # StatusNone THEN old ELSE StatusInternalServerError

Topology(r, ok) ==
    /\ r \in Requests
    /\ pc[r] = "topology"
    /\ ok \in BOOLEAN
    /\ topoFailed' = [topoFailed EXCEPT ![r] = ~ok]
    /\ status' = [status EXCEPT ![r] = StatusAfterTopology(status[r], ok)]
    /\ errorBody' = [errorBody EXCEPT ![r] = ~ok]
    /\ pc' = [pc EXCEPT ![r] = "makeRegistry"]
    /\ UNCHANGED <<shared, toArrive, cl, connVars, defaultMerged, served,
                   regVars, countCalls, knownAtStart>>

(* ---------------------------------------------------------------------- *)
(* makeRegistry (src/exporter/exporter.go:119-229)                         *)
(* ---------------------------------------------------------------------- *)
\* a makeRegistry that goes on without a client
NoClientIgnored(c) == FALSE

\* line 129: client == nil
NoClient(c) == c = Nil

\* line 142, left operand: e.getTotalCollectionsCount() > 0
FirstRead(cached) == cached > 0
\* line 142, right operand: e.getTotalCollectionsCount() < e.opts.CollStatsLimit
SecondRead(cached, limit) == cached < limit

\* lines 120-142: the general collector is registered; without a client the
\* registry is returned; otherwise getNodeType returns and the limit is
\* looked at, with the first of the two reads of the cache
MakeRegistry(r, nt) ==
    /\ r \in Requests
    /\ pc[r] = "makeRegistry"
    /\ nt \in NodeTypes
    /\ (cl[r] # Nil /\ opts.CollStatsLimit # 0) => LockFree
    /\ IF NoClient(cl[r])
       THEN /\ registry' = [registry EXCEPT ![r] = {general}]
            /\ pc' = [pc EXCEPT ![r] = "serve"]
            /\ UNCHANGED <<nodeType, limitsOk, countRead>>
       ELSE /\ nodeType' = [nodeType EXCEPT ![r] = nt]
            /\ UNCHANGED registry
            /\ IF opts.CollStatsLimit = 0
               THEN /\ limitsOk' = [limitsOk EXCEPT ![r] = TRUE]
                    /\ pc' = [pc EXCEPT ![r] = "register"]
                    /\ UNCHANGED countRead
               ELSE /\ countRead' = [countRead EXCEPT
                                        ![r] = totalCollectionsCount]
                    /\ limitsOk' = [limitsOk EXCEPT ![r] = FALSE]
                    /\ pc' = [pc EXCEPT ![r] =
                                IF FirstRead(totalCollectionsCount)
                                THEN "secondRead" ELSE "register"]
    /\ UNCHANGED <<shared, toArrive, cl, connVars, respVars, countCalls,
                   knownAtStart>>

\* line 142: the second read of the cache, under its own lock
LimitSecondRead(r) ==
    /\ r \in Requests
    /\ pc[r] = "secondRead"
    /\ LockFree
    /\ countRead' = [countRead EXCEPT ![r] = totalCollectionsCount]
    /\ limitsOk' = [limitsOk EXCEPT
                      ![r] = SecondRead(totalCollectionsCount,
                                        opts.CollStatsLimit)]
    /\ pc' = [pc EXCEPT ![r] = "register"]
    /\ UNCHANGED <<shared, toArrive, cl, connVars, respVars, nodeType,
                   registry, countCalls, knownAtStart>>

\* lines 146-154: CollectAll rewrites the options the exporter points to
ApplyCollectAll(o) ==
    IF o.CollectAll
    THEN [o EXCEPT !.DiscoveringMode =
                       IF Len(o.CollStatsNamespaces) = 0 THEN TRUE ELSE @,
                   !.EnableDiagnosticData = TRUE,
                   !.EnableDBStats = TRUE,
                   !.EnableTopMetrics = TRUE,
                   !.EnableReplicasetStatus = TRUE]
    ELSE o

\* lines 157, 171, 183, 194, 205, 217: the condition of each collector
WantCollStats(o, ok) ==
    (Len(o.CollStatsNamespaces) > 0 \/ o.DiscoveringMode)
        /\ o.EnableCollStats /\ ok
WantIndexStats(o, ok) ==
    (Len(o.IndexStatsCollections) > 0 \/ o.DiscoveringMode)
        /\ o.EnableIndexStats /\ ok
WantDiagnosticData(o) == o.EnableDiagnosticData
WantDBStats(o) == o.EnableDBStats
\* a top collector registered whatever the node type
WantTopAnyNode(o, nt) == o.EnableTopMetrics

WantTop(o, nt) == o.EnableTopMetrics /\ nt # typeMongos
WantReplSetStatus(o, nt) == o.EnableReplicasetStatus /\ nt # typeMongos

\* the collectors makeRegistry registers after the general one
Wanted(o, nt, ok) ==
    {c \in Collectors :
        \/ c = collstats /\ WantCollStats(o, ok)
        \/ c = indexstats /\ WantIndexStats(o, ok)
        \/ c = diagnosticdata /\ WantDiagnosticData(o)
        \/ c = dbstats /\ WantDBStats(o)
        \/ c = top /\ WantTop(o, nt)
        \/ c = replsetstatus /\ WantReplSetStatus(o, nt)}

\* lines 146-228: the options are rewritten and the collectors registered.
\* registry.MustRegister panics when a registration fails: the handler is
\* left through its deferred calls and nothing is returned.
Register(r, regOk) ==
    /\ r \in Requests
    /\ pc[r] = "register"
    /\ regOk \in BOOLEAN
    /\ opts' = ApplyCollectAll(opts)
    /\ LET wanted == Wanted(opts', nodeType[r], limitsOk[r]) IN
       IF regOk
       THEN /\ registry' = [registry EXCEPT ![r] = {general} \cup wanted]
            /\ pc' = [pc EXCEPT ![r] = "serve"]
       ELSE /\ wanted # {}
            /\ UNCHANGED registry
            /\ pc' = [pc EXCEPT ![r] = "panicked"]
    /\ UNCHANGED <<client, clientMu, lock, totalCollectionsCount, toArrive,
                   cl, connVars, respVars, nodeType, limitsOk, countRead,
                   countCalls, knownAtStart>>

(* ---------------------------------------------------------------------- *)
(* Handler, continued (src/exporter/exporter.go:311-325, 284-293)          *)
(* ---------------------------------------------------------------------- *)
\* lines 313-315
MergeDefault(o) == ~o.DisableDefaultRegistry

\* the first header written decides the status: ServeHTTP answers 200
\* unless http.Error already wrote its header
StatusAfterServe(old) == IF old = StatusNone THEN StatusOK ELSE old

\* lines 311-324: the gatherers are handed to promhttp, which serves
Serve(r) ==
    /\ r \in Requests
    /\ pc[r] = "serve"
    /\ defaultMerged' = [defaultMerged EXCEPT ![r] = MergeDefault(opts)]
    /\ served' = [served EXCEPT ![r] = TRUE]
    /\ status' = [status EXCEPT ![r] = StatusAfterServe(status[r])]
    /\ pc' = [pc EXCEPT ![r] = "returning"]
    /\ UNCHANGED <<shared, toArrive, cl, connVars, topoFailed, errorBody,
                   regVars, countCalls, knownAtStart>>

\* a handler whose test of GlobalConnPool is inverted
MustDisconnectInverted(o, c) == o.GlobalConnPool /\ c # Nil

\* lines 284-292: the deferred function disconnects the request's client
MustDisconnect(o, c) == ~o.GlobalConnPool /\ c # Nil

\* the handler is left, by return or by panic, and its deferred calls run;
\* its local variables are gone
Return(r) ==
    /\ r \in Requests
    /\ pc[r] \in {"returning", "panicked"}
    /\ IF MustDisconnect(opts, cl[r])
       THEN /\ conn' = [conn EXCEPT ![cl[r]] = "disconnected"]
            /\ disconnects' = [disconnects EXCEPT ![cl[r]] = @ + 1]
            /\ disconnectedBy' = [disconnectedBy EXCEPT ![cl[r]] = @ \cup {r}]
       ELSE UNCHANGED connVars
    /\ pc' = [pc EXCEPT ![r] = IF pc[r] = "panicked" THEN "aborted" ELSE "done"]
    /\ cl' = [cl EXCEPT ![r] = Nil]
    /\ nodeType' = [nodeType EXCEPT ![r] = typeUnknown]
    /\ limitsOk' = [limitsOk EXCEPT ![r] = FALSE]
    /\ countRead' = [countRead EXCEPT ![r] = NotCalculated]
    /\ UNCHANGED <<shared, toArrive, respVars, registry, countCalls,
                   knownAtStart>>

Next ==
    \/ \E r \in Requests : Receive(r)
    \/ \E p \in Procs : GetClient(p)
    \/ \E p \in Procs, outcome \in ConnectOutcomes : ConnectReturns(p, outcome)
    \/ \E r \in Requests : CountCheck(r)
    \/ \E r \in Requests, res \in CountResults : CountReturns(r, res)
    \/ \E r \in Requests, ok \in BOOLEAN : Topology(r, ok)
    \/ \E r \in Requests, nt \in NodeTypes : MakeRegistry(r, nt)
    \/ \E r \in Requests : LimitSecondRead(r)
    \/ \E r \in Requests, regOk \in BOOLEAN : Register(r, regOk)
    \/ \E r \in Requests : Serve(r)
    \/ \E r \in Requests : Return(r)

\* two concurrent requests and the warm-up task
Spec == Init /\ [][Next]_vars

\* one request and the warm-up task, under every combination of options
SpecOptions == InitOptions /\ [][Next]_vars

(* ---------------------------------------------------------------------- *)
(* Properties                                                              *)
(* ---------------------------------------------------------------------- *)
Terminated(r) == pc[r] \in {"done", "aborted"}
\* makeRegistry has returned its registry to the handler
Built(r) == pc[r] \in {"serve", "returning"}
\* the connections a connect call handed to its caller
Established == {p \in Procs : conn[p] \in {"open", "disconnected"}}

\* C1: with GlobalConnPool, whatever the interleaving of the warm-up task and
\* the requests, at most one connect succeeds and is stored; every goroutine
\* holding a client holds the shared one, which stays open; and once
\* e.client is set no step changes it.
SharedClientHeld ==
    opts.GlobalConnPool =>
        /\ Cardinality(Established) <= 1
        /\ \A p \in Procs : cl[p] # Nil => cl[p] = client
        /\ client # Nil => conn[client] = "open" /\ disconnects[client] = 0
C1_SingleSharedClient ==
    /\ []SharedClientHeld
    /\ [][client # Nil => client' = client]_vars

\* C1 witness: both requests run with the one shared client while the
\* warm-up task has finished
C1_Witness ==
    /\ opts.GlobalConnPool
    /\ client # Nil
    /\ pc[Warmup] = "done"
    /\ \A r \in Requests : cl[r] = client /\ pc[r] = "topology"

\* C2: once the count cache holds a value other than the initial -1, no
\* step of any request changes it.
C2_CountCacheWrittenOnce ==
    [][totalCollectionsCount # NotCalculated
          => totalCollectionsCount' = totalCollectionsCount]_vars

\* the limit gate as the text states it, for the value read from the cache
GateAsSpecified(limit, cached) ==
    limit = 0 \/ (cached # NotCalculated /\ cached < limit)

\* C3: the limit gate passes if and only if CollStatsLimit is zero, or the
\* cached count is known and strictly below it, a count of zero included.
C3_LimitGateIff ==
    \A r \in Requests :
        pc[r] = "register" =>
            (limitsOk[r] <=> GateAsSpecified(opts.CollStatsLimit, countRead[r]))

\* C4: with CollectAll set and no CollStatsNamespaces, every request with a
\* client that passes the limit gate has the collstats collector in its
\* registry, whatever the other enable flags.
C4_CollectAllRegistersCollStats ==
    \A r \in Requests :
        (/\ Built(r)
         /\ cl[r] # Nil
         /\ opts.CollectAll
         /\ Len(opts.CollStatsNamespaces) = 0
         /\ limitsOk[r])
            => collstats \in registry[r]

\* C5: a request whose topology classification failed stops once the 500
\* response is written: it builds no registry and serves nothing.
C5_ErrorServedTerminal ==
    \A r \in Requests :
        topoFailed[r] =>
            /\ pc[r] \in {"makeRegistry", "returning", "done"}
            /\ registry[r] = NoRegistry
            /\ ~served[r]

\* In the formulas below the registry of a request is the value makeRegistry
\* returned to its handler (a panicking makeRegistry returns none), and a
\* request is answered when promhttp has served its response.

\* C6: a request answers 500, with the error text in the body, exactly when
\* its own topology classification failed; every other request that is
\* answered, one running concurrently or one without a connection included,
\* answers 200.
C6_StatusPerRequest ==
    \A r \in Requests :
        /\ status[r] = StatusInternalServerError <=> topoFailed[r]
        /\ errorBody[r] <=> topoFailed[r]
        /\ served[r] =>
              status[r] = IF topoFailed[r] THEN StatusInternalServerError
                          ELSE StatusOK
        /\ pc[r] = "done" => served[r]

\* C6 witness: one request has written the 500 response for its failed
\* classification and is still running, the other one, whose classification
\* on a live client succeeded, has answered 200
C6_Witness ==
    \E r1, r2 \in Requests :
        /\ r1 # r2
        /\ topoFailed[r1] /\ errorBody[r1]
        /\ status[r1] = StatusInternalServerError
        /\ pc[r1] = "makeRegistry"
        /\ pc[r2] = "returning" /\ cl[r2] # Nil /\ ~topoFailed[r2]
        /\ status[r2] = StatusOK

\* C7: without GlobalConnPool, a request that obtained a connection has
\* disconnected it exactly once when its handler is left, on the return and
\* on the panic path, not before, and nobody disconnects a connection of
\* another goroutine.
C7_PerRequestDisconnect ==
    ~opts.GlobalConnPool =>
        /\ \A r \in Requests :
              /\ cl[r] # Nil => cl[r] = r /\ conn[r] = "open"
              /\ Terminated(r) => conn[r] # "open"
              /\ conn[r] = "disconnected" =>
                    Terminated(r) /\ (pc[r] = "done" => served[r])
        /\ \A p \in Procs :
              /\ disconnectedBy[p] \subseteq {p} \cap Requests
              /\ disconnects[p] = IF conn[p] = "disconnected" THEN 1 ELSE 0

\* C7 witness: one request left its handler by the panic of a registration,
\* the other one after a 500 response, and both connections are disconnected
C7_Witness ==
    /\ ~opts.GlobalConnPool
    /\ \E r1, r2 \in Requests :
          /\ pc[r1] = "aborted" /\ conn[r1] = "disconnected"
          /\ disconnectedBy[r1] = {r1}
          /\ pc[r2] = "done" /\ topoFailed[r2] /\ conn[r2] = "disconnected"
          /\ disconnectedBy[r2] = {r2}

\* C8: every registry holds the general collector; the registry of a request
\* without a client holds nothing else, whatever the flags; and the default
\* gatherer is merged exactly when DisableDefaultRegistry is not set.
C8_GeneralAlways ==
    \A r \in Requests :
        /\ registry[r] # NoRegistry => general \in registry[r]
        /\ Built(r) /\ cl[r] = Nil => registry[r] = {general}
        /\ served[r] => (defaultMerged[r] <=> ~opts.DisableDefaultRegistry)

\* C8 witness: a request whose connect failed is served the general
\* collector alone although every collector is enabled
C8_Witness ==
    \E r \in Requests :
        /\ pc[r] = "returning" /\ cl[r] = Nil /\ conn[r] = "none"
        /\ registry[r] = {general}
        /\ opts.CollectAll /\ opts.EnableCollStats /\ opts.EnableIndexStats
        /\ opts.DiscoveringMode /\ opts.EnableDiagnosticData
        /\ opts.CollStatsLimit = 0
        /\ defaultMerged[r]

Gated == {collstats, indexstats}

\* every gated collector of a registry has its preconditions
GatedPreconditions ==
    \A r \in Requests :
        Built(r) =>
            /\ collstats \in registry[r] =>
                  /\ opts.EnableCollStats
                  /\ Len(opts.CollStatsNamespaces) > 0 \/ opts.DiscoveringMode
                  /\ limitsOk[r]
            /\ indexstats \in registry[r] =>
                  /\ opts.EnableIndexStats
                  /\ Len(opts.IndexStatsCollections) > 0 \/ opts.DiscoveringMode
                  /\ limitsOk[r]

\* with a ceiling and the cache unknown, or at or above the ceiling, no
\* registry is built with a gated collector
GatedAbsentWhenOverCeiling ==
    \A r \in Requests :
        (/\ opts.CollStatsLimit # 0
         /\ \/ totalCollectionsCount = NotCalculated
            \/ totalCollectionsCount >= opts.CollStatsLimit
         /\ registry[r] = NoRegistry
         /\ registry'[r] # NoRegistry)
            => registry'[r] \cap Gated = {}

\* C9: no collstats or indexstats collector is registered unless its enable
\* flag is set, it has a namespace list or discovery mode is on, and the
\* limit gate passes; with a non-zero ceiling they are absent in every
\* request while the cached count is unknown or at or above the ceiling.
C9_GatedOnlyWithPreconditions ==
    /\ []GatedPreconditions
    /\ [][GatedAbsentWhenOverCeiling]_vars

\* C10: on a mongos the top and replSetGetStatus collectors are never in the
\* registry, whatever the flags, while the diagnostic data and dbstats
\* collectors are in it exactly when their flag or CollectAll is set.
C10_MongosRoleGate ==
    \A r \in Requests :
        Built(r) /\ cl[r] # Nil /\ nodeType[r] = typeMongos =>
            /\ top \notin registry[r]
            /\ replsetstatus \notin registry[r]
            /\ diagnosticdata \in registry[r]
                 <=> (opts.EnableDiagnosticData \/ opts.CollectAll)
            /\ dbstats \in registry[r]
                 <=> (opts.EnableDBStats \/ opts.CollectAll)

\* C10 witness: a registry built on a mongos under CollectAll holds the
\* diagnostic data and dbstats collectors and neither of the other two
C10_Witness ==
    \E r \in Requests :
        /\ pc[r] = "returning" /\ nodeType[r] = typeMongos
        /\ opts.CollectAll /\ opts.EnableTopMetrics
        /\ opts.EnableReplicasetStatus
        /\ {diagnosticdata, dbstats} \subseteq registry[r]
        /\ top \notin registry[r] /\ replsetstatus \notin registry[r]

\* C11: with GlobalConnPool a connect that fails stores nothing: it was
\* started with e.client nil and leaves it nil, the caller goes on without
\* retrying, and every later getClient that finds e.client nil connects
\* again; a connect that succeeds stores its client.
ConnectStoresOnSuccessOnly ==
    \A p \in Procs :
        (opts.GlobalConnPool /\ pc[p] = "connecting" /\ pc'[p] # "connecting")
            => /\ client = Nil
               /\ pc'[p] = AfterGetClient(p)
               /\ clientMu' = NoOne
               /\ IF conn'[p] = "open"
                  THEN client' = p /\ cl'[p] = p
                  ELSE client' = Nil /\ cl'[p] = Nil
ConnectAgainWhileNil ==
    \A p \in Procs :
        (opts.GlobalConnPool /\ pc[p] = "getClient" /\ pc'[p] # "getClient"
            /\ client = Nil)
            => pc'[p] = "connecting"
C11_FailedConnectStoresNothing ==
    /\ [][ConnectStoresOnSuccessOnly]_vars
    /\ [][ConnectAgainWhileNil]_vars

\* C11 witness: the warm-up task and the first request failed to connect,
\* the second request connected and its client is the stored one
C11_Witness ==
    /\ opts.GlobalConnPool
    /\ pc[Warmup] = "done" /\ conn[Warmup] = "none" /\ cl[Warmup] = Nil
    /\ pc[1] = "returning" /\ conn[1] = "pingFailed" /\ cl[1] = Nil
    /\ conn[2] = "open" /\ cl[2] = 2 /\ client = 2

\* C12: nonSystemCollectionsCount is called only by a request that holds a
\* client and read the cache as unknown; a request that came when the cache
\* was populated never calls it, so the number of calls stays as it is.
CountingOnlyWhenUnknown ==
    \A r \in Requests :
        pc[r] = "counting" => cl[r] # Nil /\ ~knownAtStart[r]
CountStartsOnUnknownCache ==
    \A r \in Requests :
        (pc[r] # "counting" /\ pc'[r] = "counting")
            => totalCollectionsCount = NotCalculated /\ cl[r] # Nil
CountCallsByCountingRequests ==
    countCalls' # countCalls =>
        \E r \in Requests :
            /\ pc[r] = "counting" /\ pc'[r] # "counting"
            /\ ~knownAtStart[r]
            /\ countCalls' = countCalls + 1
C12_CountOnlyWhenUnknown ==
    /\ []CountingOnlyWhenUnknown
    /\ [][CountStartsOnUnknownCache]_vars
    /\ [][CountCallsByCountingRequests]_vars

\* C12 witness: the first request counted, the second one came afterwards
\* and has been served on a live client without another count
C12_Witness ==
    /\ pc[1] = "done" /\ countCalls = 1
    /\ totalCollectionsCount # NotCalculated
    /\ knownAtStart[2] /\ pc[2] = "returning" /\ cl[2] # Nil

\* C13: no step of any request writes an option field of the exporter.
C13_OptsNeverWritten == [][opts' = opts]_vars

\* positions at which a call over the network is in flight
IOInFlight == {"connecting", "counting", "topology", "makeRegistry"}

\* C14: no goroutine holds e.clientMu or e.lock while its connect, ping,
\* count, topology or node type call is in flight.
C14_NoLockAcrossIO ==
    \A p \in Procs : pc[p] \in IOInFlight => clientMu # p /\ lock # p

\* C15: while the connect of the warm-up task is in flight, a request that
\* has entered getClient can take its step.
C15_RequestsIndependentOfWarmup ==
    \A r \in Requests :
        (pc[Warmup] = "connecting" /\ pc[r] = "getClient")
            => ENABLED GetClient(r)

\* C16: a failing registration does not abort the request: the handler gets
\* a registry and serves it.
C16_RegistrationFailureIsolated ==
    \A r \in Requests :
        /\ pc[r] # "panicked"
        /\ Terminated(r) => served[r] /\ registry[r] # NoRegistry

\* C17: when getNodeType fails on a live client the registry is built with
\* the diagnostic data and dbstats collectors as enabled, and without the
\* top and replSetGetStatus collectors.
C17_UnknownRoleFailsClosed ==
    \A r \in Requests :
        (Built(r) /\ cl[r] # Nil /\ nodeType[r] = typeUnknown) =>
            /\ diagnosticdata \in registry[r]
                 <=> (opts.EnableDiagnosticData \/ opts.CollectAll)
            /\ dbstats \in registry[r]
                 <=> (opts.EnableDBStats \/ opts.CollectAll)
            /\ top \notin registry[r]
            /\ replsetstatus \notin registry[r]

CountFailure == [err |-> TRUE, count |-> 0]

\* C18: a count that fails changes neither the cache nor anything else of
\* the exporter, the request goes on to the topology and the registry, and
\* a request with a client that reads the cache as unknown counts again; a
\* count that succeeds is stored.
FailedCountChangesNothing ==
    \A r \in Requests :
        CountReturns(r, CountFailure) =>
            /\ totalCollectionsCount' = totalCollectionsCount
            /\ UNCHANGED <<opts, client, clientMu, lock>>
            /\ pc'[r] = "topology"
CountedAgainWhileUnknown ==
    \A r \in Requests :
        /\ (pc[r] = "count" /\ pc'[r] # "count" /\ cl[r] # Nil
              /\ totalCollectionsCount = NotCalculated)
               => pc'[r] = "counting"
        /\ (pc[r] = "topology" /\ pc'[r] # "topology")
               => pc'[r] = "makeRegistry"
        /\ \A n \in 0..MaxCount :
              CountReturns(r, [err |-> FALSE, count |-> n])
                  => totalCollectionsCount' = n
C18_FailedCountRetried ==
    /\ [][FailedCountChangesNothing]_vars
    /\ [][CountedAgainWhileUnknown]_vars

\* C18 witness: the count of the first request failed, the request was
\* served all the same, and the second request is counting again
C18_Witness ==
    /\ totalCollectionsCount = NotCalculated /\ countCalls = 1
    /\ pc[1] = "done" /\ served[1] /\ registry[1] # NoRegistry
    /\ pc[2] = "counting"

\* C19: a client held by anybody is a connection that was established and
\* pinged, and is open; a connection whose ping failed was disconnected by
\* connect and handed to nobody; every open connection is held by the
\* caller of connect or stored in e.client.
C19_NoHalfOpenClient ==
    /\ client # Nil => conn[client] = "open"
    /\ \A p \in Procs :
          /\ cl[p] # Nil => conn[cl[p]] = "open"
          /\ conn[p] \in {"none", "pingFailed"} =>
                /\ client # p
                /\ \A q \in Procs : cl[q] # p
          /\ conn[p] = "open" => cl[p] = p \/ client = p

\* C19 witness: the connect of one goroutine failed at the ping and left it
\* without a client, the connect of another one succeeded
C19_Witness ==
    \E p, q \in Procs :
        /\ conn[p] = "pingFailed" /\ cl[p] = Nil /\ pc[p] = "count"
        /\ conn[q] = "open" /\ cl[q] = q /\ pc[q] = "count"

\* C20: without GlobalConnPool e.client stays nil and no goroutine that has
\* finished leaves the connection it made open.
C20_NoLeakWithoutPool ==
    ~opts.GlobalConnPool =>
        /\ client = Nil
        /\ \A p \in Procs :
              (pc[p] = "done" \/ pc[p] = "aborted") => conn[p] # "open"

====
